---- MODULE Spec2Model ----
(***************************************************************************)
(* Model of transcode_and_package.py: one run of the script.               *)
(*                                                                         *)
(* The main process walks through  __main__ -> main -> VideoProcessor()    *)
(* -> submit loop -> as_completed loop -> Bento4Packager.package -> the    *)
(* elapsed-time print.  The workers of the ProcessPoolExecutor run         *)
(* transcode_and_overlay concurrently with the main process.  The external *)
(* tools (ffprobe, ffmpeg, mp4fragment, mp4dash) are the environment:      *)
(* every call returns an outcome chosen nondeterministically.              *)
(*                                                                         *)
(* Text is modelled as sequences of one-character strings where the code   *)
(* parses it (probe output, the resolution table) and as TLA+ strings      *)
(* where the code only concatenates it (file names).  An optional value    *)
(* (Python's None or a value) is a sequence of length 0 or 1.              *)
(***************************************************************************)
EXTENDS Integers, Sequences, FiniteSets, TLC

(***************************************************************************)
(* Bounds of the model.                                                    *)
(***************************************************************************)
\* Number of worker processes of the pool (os.cpu_count() on the host).
MaxWorkers == 2
\* Number of external tool calls of one run that may fail.
MaxFaults == 1
\* Number of lines of an ffprobe answer.
MaxLines == 3

None == <<>>
Some(v) == <<v>>

(***************************************************************************)
(* Text helpers: str.strip, str.split, the `in` substring test, int().     *)
(***************************************************************************)
NL == "\n"
Whitespace == {" ", NL, "\t", "\r"}

RECURSIVE LStrip(_)
LStrip(s) == IF s # <<>> /\ Head(s) \in Whitespace THEN LStrip(Tail(s)) ELSE s

RECURSIVE RStrip(_)
RStrip(s) ==
    IF s # <<>> /\ s[Len(s)] \in Whitespace
    THEN RStrip(SubSeq(s, 1, Len(s) - 1))
    ELSE s

\* str.strip()
Strip(s) == RStrip(LStrip(s))

\* str.split(sep) for a one-character separator: always at least one field.
RECURSIVE SplitAcc(_, _, _)
SplitAcc(s, sep, cur) ==
    IF s = <<>> THEN <<cur>>
    ELSE IF Head(s) = sep THEN <<cur>> \o SplitAcc(Tail(s), sep, <<>>)
    ELSE SplitAcc(Tail(s), sep, Append(cur, Head(s)))

Split(s, sep) == SplitAcc(s, sep, <<>>)

\* `fmt in line` of Python: fmt occurs as a contiguous substring of line.
Contains(line, fmt) ==
    \E i \in 1..(Len(line) - Len(fmt) + 1) :
        SubSeq(line, i, i + Len(fmt) - 1) = fmt

Digits == <<"0", "1", "2", "3", "4", "5", "6", "7", "8", "9">>

DigitVal(c) == (CHOOSE i \in 1..10 : Digits[i] = c) - 1

IsDigit(c) == \E i \in 1..10 : Digits[i] = c

\* int(text) succeeds on a non-empty run of digits (no sign, no blanks here).
IsInt(s) == s # <<>> /\ \A i \in 1..Len(s) : IsDigit(s[i])

RECURSIVE ParseInt(_)
ParseInt(s) ==
    IF s = <<>> THEN 0
    ELSE 10 * ParseInt(SubSeq(s, 1, Len(s) - 1)) + DigitVal(s[Len(s)])

(***************************************************************************)
(* VideoProcessor.resolutions                                              *)
(***************************************************************************)
resolutions ==
    [r \in {"360p", "480p", "720p", "1080p"} |->
        CASE r = "360p"  -> <<"6", "4", "0", "x", "3", "6", "0">>
          [] r = "480p"  -> <<"8", "5", "4", "x", "4", "8", "0">>
          [] r = "720p"  -> <<"1", "2", "8", "0", "x", "7", "2", "0">>
          [] r = "1080p" -> <<"1", "9", "2", "0", "x", "1", "0", "8", "0">>]

\* Iteration order of the dict (insertion order).
ResOrder == <<"360p", "480p", "720p", "1080p">>

(***************************************************************************)
(* VideoProcessor.check_hdr                                                *)
(***************************************************************************)
Chars_bt2020 == <<"b", "t", "2", "0", "2", "0">>
Chars_smpte2084 == <<"s", "m", "p", "t", "e", "2", "0", "8", "4">>
Chars_arib == <<"a", "r", "i", "b", "-", "s", "t", "d", "-", "b", "6", "7">>
Chars_bt2020nc == <<"b", "t", "2", "0", "2", "0", "n", "c">>

\* Variant: the list lacks arib-std-b67 (HLG sources go undetected).
hdr_formats_without_arib == <<Chars_bt2020, Chars_smpte2084, Chars_bt2020nc>>

hdr_formats == <<Chars_bt2020, Chars_smpte2084, Chars_arib, Chars_bt2020nc>>

\* any(fmt in line for fmt in hdr_formats)
AnyFormatIn(line) == \E k \in 1..Len(hdr_formats) : Contains(line, hdr_formats[k])

\* for line in output: if any(...): return True;  return False
RECURSIVE ScanLines(_)
ScanLines(output) ==
    IF output = <<>> THEN FALSE
    ELSE IF AnyFormatIn(Head(output)) THEN TRUE
    ELSE ScanLines(Tail(output))

\* An outcome of subprocess.run: the call raised (the tool could not be
\* started), or it returned with an exit status and what it wrote to stdout.
\* check_hdr does not look at the exit status.
check_hdr(call) ==
    IF call.raised THEN FALSE
    ELSE ScanLines(Split(Strip(call.stdout), NL))

(***************************************************************************)
(* VideoProcessor.get_duration, VideoProcessor.get_frame_rate              *)
(* A float is modelled by the exact rational it was written as, reduced:   *)
(* <<numerator, denominator>>.                                             *)
(***************************************************************************)
RECURSIVE GCD(_, _)
GCD(a, b) == IF b = 0 THEN a ELSE GCD(b, a % b)

Reduced(n, d) == <<n \div GCD(n, d), d \div GCD(n, d)>>

RECURSIVE Pow10(_)
Pow10(k) == IF k = 0 THEN 1 ELSE 10 * Pow10(k - 1)

\* float(text) for the decimal notations ffprobe prints: digits, or
\* digits "." digits.  Anything else raises ValueError: None here.
ParseFloat(s) ==
    LET parts == Split(s, ".")
    IN  IF Len(parts) = 1 /\ IsInt(parts[1])
        THEN Some(<<ParseInt(parts[1]), 1>>)
        ELSE IF Len(parts) = 2 /\ IsInt(parts[1]) /\ IsInt(parts[2])
        THEN Some(Reduced(ParseInt(parts[1]) * Pow10(Len(parts[2])) + ParseInt(parts[2]),
                          Pow10(Len(parts[2]))))
        ELSE None

get_duration(call) ==
    IF call.raised THEN None
    ELSE ParseFloat(Strip(call.stdout))

\* num, denom = map(int, text.split('/')); num / denom.  A wrong number of
\* fields, a field that is no integer and a zero denominator all raise.
get_frame_rate(call) ==
    IF call.raised THEN None
    ELSE LET parts == Split(Strip(call.stdout), "/")
         IN  IF Len(parts) = 2 /\ IsInt(parts[1]) /\ IsInt(parts[2])
                /\ ParseInt(parts[2]) # 0
             THEN Some(Reduced(ParseInt(parts[1]), ParseInt(parts[2])))
             ELSE None

\* Variant: an absent value is left out of the command line.
PyStr_blank(x) == IF x = None THEN <<"">> ELSE <<"float", x[1][1], x[1][2]>>

\* str(x) as it ends up in the command line.
PyStr(x) == IF x = None THEN <<"None">> ELSE <<"float", x[1][1], x[1][2]>>

(***************************************************************************)
(* File names.  A path is [dir, stem, ext]; os.path.basename drops dir,    *)
(* os.path.splitext(..)[0] keeps stem, os.path.join sets dir.              *)
(***************************************************************************)
Path(dir, stem, ext) == [dir |-> dir, stem |-> stem, ext |-> ext]

StemOf(path) == path.stem

\* Variant: the file name does not tell the HDR job from the forced-SDR job.
HdrSuffix_none(hdr) == ""

HdrSuffix(hdr) == IF hdr THEN "_HDR" ELSE "_SDR"

\* output_filename / output_path of transcode_and_overlay
output_path(video, resolution, hdr) ==
    Path("output", StemOf(video) \o "_" \o resolution \o HdrSuffix(hdr), ".mp4")

\* Variant: the name of the fragment does not depend on its input.
fragmented_path_flat(input_path) == Path("output", "fragmented", ".mp4")

\* Variant: the fragment is written over its input.
fragmented_path_in_place(input_path) == Path("output", StemOf(input_path), ".mp4")

\* fragmented_path of Bento4Packager.package
fragmented_path(input_path) ==
    Path("output", StemOf(input_path) \o "-fragmented", ".mp4")

(***************************************************************************)
(* The overlay of transcode_and_overlay.                                   *)
(***************************************************************************)
\* width, height = map(int, self.resolutions[resolution].split('x'))
ParseSize(text) == <<ParseInt(Split(text, "x")[1]), ParseInt(Split(text, "x")[2])>>

\* The table parsed once, entry by entry.
Sizes == [r \in DOMAIN resolutions |-> ParseSize(resolutions[r])]

Width(resolution) == Sizes[resolution][1]
Height(resolution) == Sizes[resolution][2]

\* int(p/100 * height).  The code multiplies IEEE doubles (0.07 * height,
\* 0.05 * height) and truncates; for the heights of the table the double
\* product truncates to the same integer as the exact product.
PercentOf(p, height) == (p * height) \div 100

\* Variant: the marker is white for both kinds of job.
overlay_color_white(hdr) == "white"

overlay_color(hdr) == IF hdr THEN "green" ELSE "white"

\* Variant: the SDR percentage is used for both kinds of job.
circle_radius_flat(resolution, hdr) == PercentOf(5, Height(resolution))

circle_radius(resolution, hdr) ==
    IF hdr THEN PercentOf(7, Height(resolution)) ELSE PercentOf(5, Height(resolution))

overlay_position_x(resolution, hdr) == Width(resolution) - circle_radius(resolution, hdr)

overlay_position_y(resolution, hdr) ==
    IF hdr THEN PercentOf(7, Height(resolution))
    ELSE Height(resolution) - circle_radius(resolution, hdr)

draw_circle(color, x, y, radius) ==
    [text |-> "o", x |-> x, y |-> y, fontsize |-> radius * 2,
     fontcolor |-> color, alpha |-> "0.5"]

\* ffmpeg_cmd of transcode_and_overlay
ffmpeg_cmd(video, resolution, hdr, rate, dur) ==
    [tool |-> "ffmpeg", input |-> video,
     scale |-> <<Width(resolution), Height(resolution)>>,
     drawtext |-> draw_circle(overlay_color(hdr), overlay_position_x(resolution, hdr),
                              overlay_position_y(resolution, hdr),
                              circle_radius(resolution, hdr)),
     vcodec |-> "libx265", crf |-> "28", preset |-> "medium",
     r |-> PyStr(rate), acodec |-> "aac", ab |-> "128k", t |-> PyStr(dur),
     out |-> output_path(video, resolution, hdr)]

(***************************************************************************)
(* The environment's answers to the probes.                                *)
(***************************************************************************)
Line_bt709 == <<"b", "t", "7", "0", "9">>
Line_unknown == <<"u", "n", "k", "n", "o", "w", "n">>
\* A proper prefix of a marker: no marker.
Line_bt202 == <<"b", "t", "2", "0", "2">>
\* A marker inside a longer word.
Line_xarib == <<"x">> \o Chars_arib \o <<"y">>

ProbeLines ==
    {Line_bt709, Line_unknown, Line_bt202, Line_xarib,
     Chars_bt2020, Chars_smpte2084, Chars_arib, Chars_bt2020nc}

\* The lines of an answer, each ended by a newline, as ffprobe writes them.
RECURSIVE JoinLines(_)
JoinLines(lines) ==
    IF lines = <<>> THEN <<>>
    ELSE Head(lines) \o <<NL>> \o JoinLines(Tail(lines))

ProbeAnswers == UNION {[1..n -> ProbeLines] : n \in 0..MaxLines}

Returned(text) == [raised |-> FALSE, stdout |-> text]
Raised == [raised |-> TRUE, stdout |-> <<>>]

HdrCalls == {Raised} \cup {Returned(JoinLines(a)) : a \in ProbeAnswers}

DurationCalls ==
    {Raised,
     Returned(<<"1", "0", ".", "0", "0", "0", "0", "0", "0", NL>>),
     Returned(<<"N", "/", "A", NL>>),
     Returned(<<>>)}

FrameRateCalls ==
    {Raised,
     Returned(<<"3", "0", "/", "1", NL>>),
     Returned(<<"0", "/", "0", NL>>),
     Returned(<<"3", "0", NL>>),
     Returned(<<>>)}

VideoPaths == {Path("in", "clip", ".mkv")}

(***************************************************************************)
(* State.                                                                  *)
(***************************************************************************)
VARIABLES
    argc,                 \* len(sys.argv)
    video_path,           \* sys.argv[1]
    exists,               \* os.path.exists(video_path)
    ffmpeg_found,         \* the ffmpeg executable can be started
    max_workers,          \* size of the pool ProcessPoolExecutor() creates
    pc,                   \* position of the main process
    exit_status,          \* None while running, then the process exit status
    output_dir,           \* the directory output/ has been created
    probe_calls,          \* ffprobe calls made so far
    is_hdr, duration, frame_rate,   \* attributes of the VideoProcessor
    res_idx,              \* position of the submit loop in ResOrder
    transcoding_futures,  \* the futures, in submission order
    finished,             \* finished futures as_completed has yet to yield
    transcoded_files,     \* the list main collects
    input_paths,          \* the argument of each Bento4Packager.package call
    fragmented_paths,     \* local list of package
    frag_calls,           \* mp4fragment calls made: input, output, exit status
    dash_calls,           \* mp4dash calls made: input files, exit status
    disk,                 \* files the tools completed under output/
    leftovers,            \* files a failed tool call may have left under output/
    fault_budget,         \* external calls the environment may still make fail
    log,                  \* messages printed by the main process, by their prefix
    hdr_lines, hdr_call   \* an ffprobe answer: its lines, and the call outcome

vars ==
    <<argc, video_path, exists, ffmpeg_found, max_workers, finished, pc, exit_status, output_dir, probe_calls,
      is_hdr, duration, frame_rate, res_idx, transcoding_futures,
      transcoded_files, input_paths, fragmented_paths, frag_calls, dash_calls,
      disk, leftovers, fault_budget, log, hdr_lines, hdr_call>>

probeVars == <<hdr_lines, hdr_call>>
diskVars == <<disk, leftovers>>
procVars == <<is_hdr, duration, frame_rate>>
poolVars == <<res_idx, transcoding_futures, finished, transcoded_files>>
packVars == <<input_paths, fragmented_paths, frag_calls, dash_calls>>
argVars == <<argc, video_path, exists, ffmpeg_found, max_workers>>

\* The state of a run before its first step, but for its inputs.
Fresh ==
    /\ exit_status = None
    /\ output_dir = FALSE
    /\ probe_calls = 0
    /\ is_hdr = FALSE
    /\ duration = None
    /\ frame_rate = None
    /\ res_idx = 1
    /\ transcoding_futures = <<>>
    /\ finished = <<>>
    /\ transcoded_files = <<>>
    /\ input_paths = <<>>
    /\ fragmented_paths = <<>>
    /\ frag_calls = <<>>
    /\ dash_calls = <<>>
    /\ disk = {}
    /\ leftovers = {}
    /\ log = {}

Init ==
    /\ argc \in 1..3
    /\ video_path \in VideoPaths
    /\ exists \in BOOLEAN
    /\ ffmpeg_found \in BOOLEAN
    /\ max_workers = MaxWorkers
    /\ pc = "argv"
    /\ hdr_lines = <<>>
    /\ hdr_call = Raised
    /\ fault_budget = MaxFaults
    /\ Fresh

(***************************************************************************)
(* __main__ and the head of main.                                          *)
(***************************************************************************)
\* Variant: only a missing argument is refused, extra arguments are ignored.
usage_error_too_few(n) == n < 2

\* len(sys.argv) != 2
usage_error(n) == n # 2

\* Variant: the existence check is left out.
file_not_found_unchecked(e) == FALSE

\* not os.path.exists(video_path)
file_not_found(e) == ~e

\* if len(sys.argv) != 2: print usage; sys.exit(1)
CheckArgs ==
    /\ pc = "argv"
    /\ IF usage_error(argc)
       THEN pc' = "exited" /\ exit_status' = Some(1) /\ log' = log \cup {"Usage:"}
       ELSE pc' = "main" /\ UNCHANGED <<exit_status, log>>
    /\ UNCHANGED <<argVars, output_dir, probe_calls, procVars, poolVars,
                   packVars, diskVars, fault_budget, probeVars>>

\* if not os.path.exists(video_path): print; sys.exit(1)
CheckExists ==
    /\ pc = "main"
    /\ IF file_not_found(exists)
       THEN pc' = "exited" /\ exit_status' = Some(1) /\ log' = log \cup {"File not found:"}
       ELSE pc' = "makedirs" /\ UNCHANGED <<exit_status, log>>
    /\ UNCHANGED <<argVars, output_dir, probe_calls, procVars, poolVars,
                   packVars, diskVars, fault_budget, probeVars>>

\* os.makedirs('output', exist_ok=True)
MakeDirs ==
    /\ pc = "makedirs"
    /\ output_dir' = TRUE
    /\ pc' = "check_hdr"
    /\ UNCHANGED <<argVars, exit_status, probe_calls, procVars, poolVars,
                   packVars, diskVars, fault_budget, log, probeVars>>

(***************************************************************************)
(* VideoProcessor.__init__: the three probes, in this order.               *)
(***************************************************************************)
\* A call that raised, exited non-zero or gave an unusable answer uses up one
\* unit of the budget.
BudgetAfter(failed) == IF failed THEN fault_budget - 1 ELSE fault_budget

\* except Exception as e: print(f"<message>: {e}")
LogAfter(failed, message) == IF failed THEN log \cup {message} ELSE log

CheckHdr ==
    /\ pc = "check_hdr"
    /\ \E call \in HdrCalls :
        /\ call.raised => fault_budget > 0
        /\ is_hdr' = check_hdr(call)
        /\ fault_budget' = BudgetAfter(call.raised)
        /\ log' = LogAfter(call.raised, "Error checking HDR with ffprobe:")
    /\ probe_calls' = probe_calls + 1
    /\ pc' = "get_duration"
    /\ UNCHANGED <<argVars, exit_status, output_dir, duration, frame_rate,
                   poolVars, packVars, diskVars, probeVars>>

GetDuration ==
    /\ pc = "get_duration"
    /\ \E call \in DurationCalls :
        /\ get_duration(call) = None => fault_budget > 0
        /\ duration' = get_duration(call)
        /\ fault_budget' = BudgetAfter(get_duration(call) = None)
        /\ log' = LogAfter(get_duration(call) = None, "Error getting duration:")
    /\ probe_calls' = probe_calls + 1
    /\ pc' = "get_frame_rate"
    /\ UNCHANGED <<argVars, exit_status, output_dir, is_hdr, frame_rate,
                   poolVars, packVars, diskVars, probeVars>>

GetFrameRate ==
    /\ pc = "get_frame_rate"
    /\ \E call \in FrameRateCalls :
        /\ get_frame_rate(call) = None => fault_budget > 0
        /\ frame_rate' = get_frame_rate(call)
        /\ fault_budget' = BudgetAfter(get_frame_rate(call) = None)
        /\ log' = LogAfter(get_frame_rate(call) = None, "Error getting frame rate:")
    /\ probe_calls' = probe_calls + 1
    /\ pc' = "submit"
    /\ UNCHANGED <<argVars, exit_status, output_dir, is_hdr, duration,
                   poolVars, packVars, diskVars, probeVars>>

(***************************************************************************)
(* main: the submit loop.                                                  *)
(***************************************************************************)
\* What executor.submit(processor.transcode_and_overlay, resolution, hdr)
\* adds to transcoding_futures.
Future(resolution, hdr) ==
    [resolution |-> resolution, hdr |-> hdr, st |-> "pending", cmd |-> None,
     outcome |-> "", result |-> None, yielded |-> FALSE]

\* Variant: the forced-SDR job of an HDR source is not submitted.
Submitted_once(res, hdr_source) == <<Future(res, hdr_source)>>

\* The futures one iteration of `for res in VideoProcessor.resolutions` submits.
Submitted(res, hdr_source) ==
    <<Future(res, hdr_source)>> \o (IF hdr_source THEN <<Future(res, FALSE)>> ELSE <<>>)

Submit ==
    /\ pc = "submit"
    /\ transcoding_futures' = transcoding_futures \o Submitted(ResOrder[res_idx], is_hdr)
    /\ res_idx' = res_idx + 1
    /\ pc' = IF res_idx = Len(ResOrder) THEN "collect" ELSE "submit"
    /\ UNCHANGED <<argVars, exit_status, output_dir, probe_calls, procVars,
                   finished, transcoded_files, packVars, diskVars, fault_budget, log, probeVars>>

(***************************************************************************)
(* The workers: transcode_and_overlay.                                     *)
(***************************************************************************)
Busy == {j \in DOMAIN transcoding_futures : transcoding_futures[j].st = "running"}

Pending == {j \in DOMAIN transcoding_futures : transcoding_futures[j].st = "pending"}

\* The pool hands out work items in submission order.
NextPending == CHOOSE j \in Pending : \A k \in Pending : j <= k

\* Variant: one worker of the pool is never given work.
WorkerFree_one_kept_back == Cardinality(Busy) + 1 < max_workers

\* A worker of the pool is idle.
WorkerFree == Cardinality(Busy) < max_workers

\* Variant: the worker probes the frame rate again instead of using the
\* attribute probed at construction.
WorkerStart_reprobe ==
    /\ pc \in {"submit", "collect"}
    /\ Pending # {}
    /\ WorkerFree
    /\ \E call \in FrameRateCalls :
         LET j == NextPending
             f == transcoding_futures[j]
         IN  transcoding_futures' =
                 [transcoding_futures EXCEPT
                     ![j].st = "running",
                     ![j].cmd = Some(ffmpeg_cmd(video_path, f.resolution, f.hdr,
                                                get_frame_rate(call), duration))]
    /\ UNCHANGED <<argVars, pc, exit_status, output_dir, probe_calls, procVars,
                   res_idx, finished, transcoded_files, packVars, diskVars, fault_budget, log, probeVars>>

\* A free worker takes the next work item, builds the command and calls ffmpeg.
WorkerStart ==
    /\ pc \in {"submit", "collect"}
    /\ Pending # {}
    /\ WorkerFree
    /\ LET j == NextPending
           f == transcoding_futures[j]
       IN  transcoding_futures' =
               [transcoding_futures EXCEPT
                   ![j].st = "running",
                   ![j].cmd = Some(ffmpeg_cmd(video_path, f.resolution, f.hdr,
                                              frame_rate, duration))]
    /\ UNCHANGED <<argVars, pc, exit_status, output_dir, probe_calls, procVars,
                   res_idx, finished, transcoded_files, packVars, diskVars, fault_budget, log, probeVars>>

\* Variant: only a non-zero exit status counts as a failure, a call that
\* could not be made still yields the output path.
transcode_result_exit_only(outcome, out) == IF outcome = "exit1" THEN None ELSE Some(out)

\* Variant: the exit status of ffmpeg is not looked at.
transcode_result_unchecked(outcome, out) == Some(out)

\* The value transcode_and_overlay returns for an outcome of
\* subprocess.run(ffmpeg_cmd): output_path, or None after an error.
transcode_result(outcome, out) == IF outcome = "exit0" THEN Some(out) ELSE None

\* ffmpeg exits with status 0: the rendition file is written.
TranscodeOk(j) ==
    /\ j \in DOMAIN transcoding_futures
    /\ transcoding_futures[j].st = "running"
    /\ ffmpeg_found
    /\ finished' = Append(finished, j)
    /\ LET out == transcoding_futures[j].cmd[1].out
       IN  /\ transcoding_futures' =
                 [transcoding_futures EXCEPT
                     ![j].st = "done", ![j].outcome = "exit0",
                     ![j].result = transcode_result("exit0", out)]
           /\ disk' = disk \cup {out}
    /\ UNCHANGED <<leftovers, argVars, pc, exit_status, output_dir, probe_calls, procVars,
                   res_idx, transcoded_files, packVars, fault_budget, log, probeVars>>

\* ffmpeg exits with a non-zero status.  What it had written of the output
\* file by then is not removed: the file may or may not exist afterwards.
TranscodeFail(j) ==
    /\ j \in DOMAIN transcoding_futures
    /\ transcoding_futures[j].st = "running"
    /\ ffmpeg_found
    /\ fault_budget > 0
    /\ LET out == transcoding_futures[j].cmd[1].out
       IN  /\ transcoding_futures' =
                 [transcoding_futures EXCEPT
                     ![j].st = "done", ![j].outcome = "exit1",
                     ![j].result = transcode_result("exit1", out)]
           /\ leftovers' = leftovers \cup {out}
    /\ finished' = Append(finished, j)
    /\ fault_budget' = fault_budget - 1
    /\ UNCHANGED <<argVars, pc, exit_status, output_dir, probe_calls, procVars,
                   res_idx, transcoded_files, packVars, disk, log, probeVars>>

\* ffmpeg cannot be started: subprocess.run raises, nothing is written.
TranscodeRaise(j) ==
    /\ j \in DOMAIN transcoding_futures
    /\ transcoding_futures[j].st = "running"
    /\ ~ffmpeg_found
    /\ transcoding_futures' =
          [transcoding_futures EXCEPT
              ![j].st = "done", ![j].outcome = "raised",
              ![j].result = transcode_result("raised", transcoding_futures[j].cmd[1].out)]
    /\ finished' = Append(finished, j)
    /\ UNCHANGED <<argVars, pc, exit_status, output_dir, probe_calls, procVars,
                   res_idx, transcoded_files, packVars, diskVars, fault_budget, log, probeVars>>

(***************************************************************************)
(* main: the as_completed loop and the call of the packager.               *)
(***************************************************************************)
Unyielded == {j \in DOMAIN transcoding_futures : ~transcoding_futures[j].yielded}

\* One iteration: as_completed yields the future that finished first among
\* those not yet yielded, main keeps its result if it is truthy.
Collect ==
    /\ pc = "collect"
    /\ finished # <<>>
    /\ LET j == Head(finished)
       IN  /\ transcoding_futures' = [transcoding_futures EXCEPT ![j].yielded = TRUE]
           /\ transcoded_files' =
                 IF transcoding_futures[j].result # None
                 THEN Append(transcoded_files, transcoding_futures[j].result[1])
                 ELSE transcoded_files
    /\ finished' = Tail(finished)
    /\ UNCHANGED <<argVars, pc, exit_status, output_dir, probe_calls, procVars,
                   res_idx, packVars, diskVars, fault_budget, log, probeVars>>

\* Variant: the loop ends as soon as no finished future is waiting.
as_completed_no_wait == finished = <<>>

\* The as_completed loop ends when every submitted future has been yielded.
as_completed_exhausted == Unyielded = {}

\* After the loop: Bento4Packager.package(transcoded_files)
CallPackage ==
    /\ pc = "collect"
    /\ as_completed_exhausted
    /\ input_paths' = Append(input_paths, transcoded_files)
    /\ pc' = "package"
    /\ UNCHANGED <<argVars, exit_status, output_dir, probe_calls, procVars,
                   poolVars, fragmented_paths, frag_calls, dash_calls, diskVars,
                   fault_budget, log, probeVars>>

(***************************************************************************)
(* Bento4Packager.package                                                  *)
(***************************************************************************)
\* Variant: the exit status of the packaging tools is not looked at.
call_failed_unchecked(returncode) == FALSE

\* if result.returncode != 0: raise RuntimeError(...)
call_failed(returncode) == returncode # 0

\* One iteration of the loop: mp4fragment on the next input path.  A raised
\* error leaves the loop and the function through the except clause.
Fragment ==
    /\ pc = "package"
    /\ Len(fragmented_paths) < Len(input_paths[1])
    /\ \E returncode \in {0, 1} :
        LET input_path == input_paths[1][Len(fragmented_paths) + 1]
            out == fragmented_path(input_path)
        IN  /\ returncode # 0 => fault_budget > 0
            /\ fault_budget' = BudgetAfter(returncode # 0)
            /\ frag_calls' = Append(frag_calls,
                                    [input |-> input_path, out |-> out, rc |-> returncode])
            /\ disk' = IF returncode = 0 THEN disk \cup {out} ELSE disk
            /\ leftovers' = IF returncode = 0 THEN leftovers ELSE leftovers \cup {out}
            /\ IF call_failed(returncode)
               THEN /\ log' = log \cup {"Error in Bento4Packager"}
                    /\ pc' = "packaged"
                    /\ UNCHANGED fragmented_paths
               ELSE /\ fragmented_paths' = Append(fragmented_paths, out)
                    /\ UNCHANGED <<pc, log>>
    /\ UNCHANGED <<argVars, exit_status, output_dir, probe_calls, procVars,
                   poolVars, input_paths, dash_calls, probeVars>>

\* After the loop: mp4dash over the fragmented files; a failure is printed.
Dash ==
    /\ pc = "package"
    /\ Len(fragmented_paths) = Len(input_paths[1])
    /\ \E returncode \in {0, 1} :
        /\ returncode # 0 => fault_budget > 0
        /\ fault_budget' = BudgetAfter(returncode # 0)
        /\ dash_calls' = Append(dash_calls, [files |-> fragmented_paths, rc |-> returncode])
        /\ log' = IF call_failed(returncode)
                  THEN log \cup {"Error in Bento4Packager"}
                  ELSE log
    /\ pc' = "packaged"
    /\ UNCHANGED <<argVars, exit_status, output_dir, probe_calls, procVars,
                   poolVars, input_paths, fragmented_paths, frag_calls, diskVars,
                   probeVars>>

(***************************************************************************)
(* The tail of main and of __main__.                                       *)
(***************************************************************************)
\* End of the with block (executor.shutdown), main returns.
MainReturn ==
    /\ pc = "packaged"
    /\ pc' = "elapsed"
    /\ UNCHANGED <<argVars, exit_status, output_dir, probe_calls, procVars,
                   poolVars, packVars, diskVars, fault_budget, log, probeVars>>

\* print("duration:", ...) and the end of the script.
PrintElapsed ==
    /\ pc = "elapsed"
    /\ log' = log \cup {"duration:"}
    /\ pc' = "exited"
    /\ exit_status' = Some(0)
    /\ UNCHANGED <<argVars, output_dir, probe_calls, procVars, poolVars,
                   packVars, diskVars, fault_budget, probeVars>>

MaxJobs == 2 * Len(ResOrder)

Next ==
    \/ CheckArgs
    \/ CheckExists
    \/ MakeDirs
    \/ CheckHdr
    \/ GetDuration
    \/ GetFrameRate
    \/ Submit
    \/ WorkerStart
    \/ \E j \in 1..MaxJobs : TranscodeOk(j)
    \/ \E j \in 1..MaxJobs : TranscodeFail(j)
    \/ \E j \in 1..MaxJobs : TranscodeRaise(j)
    \/ Collect
    \/ CallPackage
    \/ Fragment
    \/ Dash
    \/ MainReturn
    \/ PrintElapsed

Spec == Init /\ [][Next]_vars

(***************************************************************************)
(* check_hdr on its own: an ffprobe answer is drawn, check_hdr is applied. *)
(***************************************************************************)
InitProbe ==
    /\ argc = 2
    /\ video_path \in VideoPaths
    /\ exists = TRUE
    /\ ffmpeg_found = TRUE
    /\ max_workers = MaxWorkers
    /\ pc = "check_hdr"
    /\ \/ /\ hdr_lines \in ProbeAnswers
          /\ hdr_call = Returned(JoinLines(hdr_lines))
       \/ /\ hdr_lines = <<>>
          /\ hdr_call = Raised
    /\ fault_budget = MaxFaults
    /\ Fresh

ApplyCheckHdr ==
    /\ pc = "check_hdr"
    /\ is_hdr' = check_hdr(hdr_call)
    /\ log' = LogAfter(hdr_call.raised, "Error checking HDR with ffprobe:")
    /\ probe_calls' = probe_calls + 1
    /\ pc' = "get_duration"
    /\ UNCHANGED <<argVars, exit_status, output_dir, duration, frame_rate,
                   poolVars, packVars, diskVars, fault_budget, probeVars>>

NextProbe == ApplyCheckHdr

SpecProbe == InitProbe /\ [][NextProbe]_vars

(***************************************************************************)
(* The run of a validated input: one argument, naming an existing file.    *)
(* A pool of MaxWorkers workers can do every step a smaller pool can.      *)
(***************************************************************************)
InitValid ==
    /\ argc = 2
    /\ video_path \in VideoPaths
    /\ exists = TRUE
    /\ ffmpeg_found \in BOOLEAN
    /\ max_workers = MaxWorkers
    /\ pc = "argv"
    /\ hdr_lines = <<>>
    /\ hdr_call = Raised
    /\ fault_budget = MaxFaults
    /\ Fresh

ValidSpec == InitValid /\ [][Next]_vars

(***************************************************************************)
(* The run of a validated input under fair scheduling: the main process    *)
(* and every worker keep taking steps, and every external call that was    *)
(* started returns, with any status.  The pool has any size from 1 up.     *)
(***************************************************************************)
InitFair ==
    /\ argc = 2
    /\ video_path \in VideoPaths
    /\ exists = TRUE
    /\ ffmpeg_found \in BOOLEAN
    /\ max_workers \in 1..MaxWorkers
    /\ pc = "argv"
    /\ hdr_lines = <<>>
    /\ hdr_call = Raised
    /\ fault_budget = MaxFaults
    /\ Fresh

FairSpec == InitFair /\ [][Next]_vars /\ WF_vars(Next)

(***************************************************************************)
(* The run of a valid invocation in an environment where no external call  *)
(* fails: ffprobe answers usably, ffmpeg, mp4fragment and mp4dash exit     *)
(* with status 0.  Scheduling is fair.                                     *)
(***************************************************************************)
InitFaultFree ==
    /\ argc = 2
    /\ video_path \in VideoPaths
    /\ exists = TRUE
    /\ ffmpeg_found = TRUE
    /\ max_workers \in 1..MaxWorkers
    /\ pc = "argv"
    /\ hdr_lines = <<>>
    /\ hdr_call = Raised
    /\ fault_budget = 0
    /\ Fresh

NextFaultFree ==
    \/ CheckArgs
    \/ CheckExists
    \/ MakeDirs
    \/ CheckHdr
    \/ GetDuration
    \/ GetFrameRate
    \/ Submit
    \/ WorkerStart
    \/ \E j \in 1..MaxJobs : TranscodeOk(j)
    \/ Collect
    \/ CallPackage
    \/ Fragment
    \/ Dash
    \/ MainReturn
    \/ PrintElapsed

FaultFreeSpec == InitFaultFree /\ [][NextFaultFree]_vars /\ WF_vars(NextFaultFree)

(***************************************************************************)
(* Properties.                                                             *)
(***************************************************************************)
Jobs == DOMAIN transcoding_futures

Succeeded == {j \in Jobs : transcoding_futures[j].outcome = "exit0"}

Failed == {j \in Jobs : transcoding_futures[j].outcome \in {"exit1", "raised"}}

\* The file job j was told to write.
OutOf(j) == transcoding_futures[j].cmd[1].out

PackagerCalled == input_paths # <<>>

\* C1: when the packager is called, every submitted job has completed with
\* its own outcome, whatever the outcomes of the others, and the list handed
\* over holds the output path of each job whose ffmpeg call exited with 0,
\* exactly once, and nothing else (nothing for a job that exited non-zero or
\* raised).
C1_PartialFailure ==
    PackagerCalled =>
        LET handed == input_paths[1]
        IN  /\ Len(input_paths) = 1
            /\ Jobs = Succeeded \cup Failed
            /\ \A j \in Succeeded :
                 Cardinality({i \in DOMAIN handed : handed[i] = OutOf(j)}) = 1
            /\ \A i \in DOMAIN handed : \E j \in Succeeded : handed[i] = OutOf(j)
            /\ \A j \in Failed : \A i \in DOMAIN handed : handed[i] # OutOf(j)

\* C1 witness: the packager was called after one of eight jobs failed; jobs
\* started after the failure succeeded.
C1_Witness ==
    /\ PackagerCalled
    /\ Cardinality(Jobs) = 8
    /\ Cardinality(Failed) = 1
    /\ Len(input_paths[1]) = 7
    /\ \E i \in Failed, j \in Succeeded : i < j

\* The submit loop has run over the whole table.
AllJobsSubmitted == res_idx > Len(ResOrder)

AllJobsDone == \A j \in Jobs : transcoding_futures[j].st = "done"

NoPackagingCall == input_paths = <<>> /\ frag_calls = <<>> /\ dash_calls = <<>>

\* C2: packaging is a barrier.  While a job is still to be submitted, pending
\* or running, no package, mp4fragment or mp4dash call has been made, and
\* every step that makes one starts from a state where all jobs are done; so
\* as long as one ffmpeg call has not returned, packaging has not started.
C2_Barrier ==
    /\ [](~(AllJobsSubmitted /\ AllJobsDone) => NoPackagingCall)
    /\ [][(input_paths' # input_paths \/ frag_calls' # frag_calls
              \/ dash_calls' # dash_calls)
            => (AllJobsSubmitted /\ AllJobsDone)]_vars

\* C2 witness: every job but one has finished and been collected, the last
\* one is still running, and packaging has not started.
C2_Witness ==
    /\ pc = "collect"
    /\ Cardinality(Jobs) = 8
    /\ Cardinality({j \in Jobs : transcoding_futures[j].yielded}) = 7
    /\ \E j \in Jobs : transcoding_futures[j].st = "running"
    /\ NoPackagingCall

\* C3: once an mp4fragment call has exited non-zero, no further mp4fragment
\* call is made and mp4dash is never called in that run.
C3_FragmentHardStop ==
    /\ [](\A i \in DOMAIN frag_calls :
            frag_calls[i].rc # 0 => i = Len(frag_calls) /\ dash_calls = <<>>)
    /\ [][(\E i \in DOMAIN frag_calls : frag_calls[i].rc # 0)
            => (frag_calls' = frag_calls /\ dash_calls' = dash_calls)]_vars

\* C3 witness: the run has ended; the second of several mp4fragment calls
\* failed, later input paths were never fragmented.
C3_Witness ==
    /\ pc = "exited"
    /\ Len(frag_calls) = 2
    /\ frag_calls[2].rc # 0
    /\ Len(input_paths[1]) >= 4
    /\ dash_calls = <<>>

TableResolutions == {"360p", "480p", "720p", "1080p"}

ExpectedJobs(hdr_source) ==
    IF hdr_source
    THEN {<<r, h>> : r \in TableResolutions, h \in BOOLEAN}
    ELSE {<<r, FALSE>> : r \in TableResolutions}

JobOf(j) == <<transcoding_futures[j].resolution, transcoding_futures[j].hdr>>

\* C4: the jobs submitted are never duplicated and never outside the set the
\* probe result calls for; once the submit loop is over they are exactly that
\* set: 4 jobs (resolution, false) for an SDR source, 8 jobs (resolution, true)
\* and (resolution, false) for an HDR source.
C4_JobEnumeration ==
    /\ \A i, j \in Jobs : i # j => JobOf(i) # JobOf(j)
    /\ {JobOf(j) : j \in Jobs} \subseteq ExpectedJobs(is_hdr)
    /\ AllJobsSubmitted =>
         /\ {JobOf(j) : j \in Jobs} = ExpectedJobs(is_hdr)
         /\ Len(transcoding_futures) = (IF is_hdr THEN 8 ELSE 4)

\* C4 witness: an HDR source, the submit loop is over.
C4_Witness == is_hdr /\ pc = "collect" /\ Len(transcoding_futures) = 8

ValidInvocation == argc = 2 /\ exists

\* C5: the process ends with status 0 when it was given exactly one argument
\* naming an existing file, whatever failed on the way, and with status 1
\* only for a wrong argument count or a missing file.
C5_ExitStatus ==
    /\ exit_status \in {None, Some(0), Some(1)}
    /\ pc = "exited" <=> exit_status # None
    /\ pc = "exited" => (exit_status = Some(0) <=> ValidInvocation)

\* C5 witness: status 0 after every transcode job failed and mp4dash failed.
C5_Witness ==
    /\ exit_status = Some(0)
    /\ Jobs # {} /\ Failed = Jobs
    /\ \E i \in DOMAIN dash_calls : dash_calls[i].rc # 0

NoSideEffect ==
    /\ ~output_dir
    /\ probe_calls = 0
    /\ transcoding_futures = <<>>
    /\ NoPackagingCall
    /\ disk = {}

\* C6: with a wrong argument count or a missing input file the run never
\* creates the output directory and never calls a tool, and it takes no step
\* but the check that ends it with a non-zero status.
C6_FatalValidation ==
    /\ [](~ValidInvocation => NoSideEffect /\ exit_status \in {None, Some(1)})
    /\ [][(~ValidInvocation /\ (argc # 2 \/ pc = "main"))
            => (pc' = "exited" /\ exit_status' = Some(1))]_vars

\* C6 witness: the run ended with status 1 for a missing file.
C6_Witness ==
    /\ argc = 2 /\ ~exists
    /\ pc = "exited" /\ exit_status = Some(1)
    /\ "File not found:" \in log

ClaimMarkers == {Chars_bt2020, Chars_smpte2084, Chars_arib, Chars_bt2020nc}

\* C7: check_hdr answers true exactly when the probe call returned and some
\* line of its output contains one of the markers bt2020, smpte2084,
\* arib-std-b67, bt2020nc; when the call raised it answers false and the run
\* goes on.
C7_HdrDetection ==
    pc = "get_duration" =>
        (is_hdr <=>
            /\ ~hdr_call.raised
            /\ \E i \in DOMAIN hdr_lines :
                 \E m \in ClaimMarkers : Contains(hdr_lines[i], m))

\* C7 witness: a three-line answer whose only marker sits inside a longer
\* word of the last line was found HDR.
C7_Witness ==
    /\ pc = "get_duration"
    /\ is_hdr
    /\ hdr_lines = <<Line_bt709, Line_bt202, Line_xarib>>

SdrNames == {"clip_360p_SDR", "clip_480p_SDR", "clip_720p_SDR", "clip_1080p_SDR"}

SdrRenditions == {Path("output", n, ".mp4") : n \in SdrNames}

SdrFragments == {Path("output", n \o "-fragmented", ".mp4") : n \in SdrNames}

Range(seq) == {seq[i] : i \in DOMAIN seq}

\* The run is over, the source was probed as SDR and no external call failed.
SdrRunAllOk ==
    /\ pc = "exited" /\ ValidInvocation
    /\ ~is_hdr
    /\ duration # None /\ frame_rate # None
    /\ Failed = {}
    /\ \A i \in DOMAIN frag_calls : frag_calls[i].rc = 0
    /\ \A i \in DOMAIN dash_calls : dash_calls[i].rc = 0

\* C8: every run in which no external call fails ends, under fair scheduling;
\* if its source was probed as SDR, at its end output/ holds exactly the four renditions
\* clip_{360p,480p,720p,1080p}_SDR.mp4 and their fragmented siblings, each
\* rendition was fragmented exactly once, and mp4dash was called exactly
\* once, after the last mp4fragment call, over the four fragmented files.
C8_EndToEndSdr ==
    /\ [](SdrRunAllOk =>
            /\ Range(transcoded_files) = SdrRenditions
            /\ disk = SdrRenditions \cup SdrFragments
            /\ leftovers = {}
            /\ Len(frag_calls) = 4
            /\ {frag_calls[i].input : i \in DOMAIN frag_calls} = SdrRenditions
            /\ \A i \in DOMAIN frag_calls :
                 /\ frag_calls[i].rc = 0
                 /\ frag_calls[i].out =
                      Path("output", frag_calls[i].input.stem \o "-fragmented", ".mp4")
            /\ Len(dash_calls) = 1
            /\ dash_calls[1].rc = 0
            /\ Len(dash_calls[1].files) = 4
            /\ Range(dash_calls[1].files) = SdrFragments)
    /\ [][dash_calls # <<>> => frag_calls' = frag_calls]_vars
    /\ <>(pc = "exited")

\* C8 witness: such a run has ended, with the renditions collected in an
\* order other than the submission order.
C8_Witness ==
    /\ SdrRunAllOk
    /\ Len(dash_calls) = 1
    /\ transcoded_files[1] = Path("output", "clip_480p_SDR", ".mp4")

\* The path the job will write, from what was submitted.
PathOf(j) ==
    output_path(video_path, transcoding_futures[j].resolution, transcoding_futures[j].hdr)

Started(j) == transcoding_futures[j].cmd # None

\* C9: no two submitted jobs have the same output path, the ffmpeg commands
\* of two jobs running at the same time never name the same output file, and
\* the run has 4 distinct paths for an SDR source and 8 for an HDR source.
C9_UniquePaths ==
    /\ Cardinality({PathOf(j) : j \in Jobs}) = Cardinality(Jobs)
    /\ \A j \in Jobs : Started(j) => OutOf(j) = PathOf(j)
    /\ \A i, j \in Busy : i # j => OutOf(i) # OutOf(j)
    /\ AllJobsSubmitted =>
         Cardinality({PathOf(j) : j \in Jobs}) = (IF is_hdr THEN 8 ELSE 4)

\* C9 witness: the HDR and the forced-SDR job of one resolution are running
\* at the same time.
C9_Witness ==
    \E i, j \in Jobs :
        /\ i # j
        /\ transcoding_futures[i].st = "running"
        /\ transcoding_futures[j].st = "running"
        /\ transcoding_futures[i].resolution = transcoding_futures[j].resolution

ClaimSize ==
    [r \in TableResolutions |->
        CASE r = "360p"  -> <<640, 360>>
          [] r = "480p"  -> <<854, 480>>
          [] r = "720p"  -> <<1280, 720>>
          [] r = "1080p" -> <<1920, 1080>>]

ClaimRadius ==
    [r \in TableResolutions |->
        CASE r = "360p"  -> [hdr |-> 25, sdr |-> 18]
          [] r = "480p"  -> [hdr |-> 33, sdr |-> 24]
          [] r = "720p"  -> [hdr |-> 50, sdr |-> 36]
          [] r = "1080p" -> [hdr |-> 75, sdr |-> 54]]

\* C10: for every resolution of the table and both HDR flags the radius is
\* floor(7% of the height) for HDR (25, 33, 50, 75) and floor(5%) for SDR
\* (18, 24, 36, 54), and the command of every started job scales to the
\* table's width x height and draws the marker green at (width - radius,
\* floor(7% of height)) for HDR, white at (width - radius, height - radius)
\* for SDR, with a font size of twice the radius.
C10_OverlaySpec ==
    /\ \A r \in TableResolutions :
         /\ circle_radius(r, TRUE) = ClaimRadius[r].hdr
         /\ circle_radius(r, FALSE) = ClaimRadius[r].sdr
         /\ ClaimRadius[r].hdr = (7 * ClaimSize[r][2]) \div 100
         /\ ClaimRadius[r].sdr = (5 * ClaimSize[r][2]) \div 100
    /\ \A j \in Jobs : Started(j) =>
         LET f == transcoding_futures[j]
             d == f.cmd[1].drawtext
             w == ClaimSize[f.resolution][1]
             h == ClaimSize[f.resolution][2]
             radius == IF f.hdr THEN ClaimRadius[f.resolution].hdr
                       ELSE ClaimRadius[f.resolution].sdr
         IN  /\ f.cmd[1].scale = <<w, h>>
             /\ d.fontcolor = (IF f.hdr THEN "green" ELSE "white")
             /\ d.fontsize = 2 * radius
             /\ d.x = w - radius
             /\ d.y = (IF f.hdr THEN (7 * h) \div 100 ELSE h - radius)

\* C10 witness: the 1080p HDR job and a 360p SDR job have both been started.
C10_Witness ==
    /\ \E j \in Jobs : Started(j) /\ JobOf(j) = <<"1080p", TRUE>>
                       /\ transcoding_futures[j].cmd[1].drawtext.fontsize = 150
    /\ \E j \in Jobs : Started(j) /\ JobOf(j) = <<"360p", FALSE>>
                       /\ transcoding_futures[j].cmd[1].drawtext.y = 342

\* Files that are, or that a failed call may have left, under output/.
MayBeOnDisk == disk \cup leftovers

\* The files the jobs started so far were told to write.
RenditionPaths == {OutOf(j) : j \in {k \in Jobs : Started(k)}}

PackagingStarts == pc = "package" /\ frag_calls = <<>> /\ dash_calls = <<>>

\* C11: when packaging starts, every rendition file that exists under
\* output/ was written by exactly one job whose ffmpeg call exited with 0,
\* and a job that failed has left no output file there and is absent from the
\* list handed to the packager.  transcode_and_overlay removes nothing after
\* a failed ffmpeg call, so what ffmpeg had written by then stays.
C11_RenditionsOnDisk ==
    PackagingStarts =>
        /\ \A p \in MayBeOnDisk \cap RenditionPaths :
             Cardinality({j \in Succeeded : OutOf(j) = p}) = 1
        /\ \A j \in Failed :
             /\ OutOf(j) \notin MayBeOnDisk
             /\ OutOf(j) \notin Range(input_paths[1])

\* The '-fragmented.mp4' sibling of a rendition under output/.
SiblingOf(path) == Path(path.dir, path.stem \o "-fragmented", ".mp4")

\* C12: mp4dash is called at most once in a run; when it has been called,
\* every path handed to the packager has had its mp4fragment call, in the
\* order handed over, each exited with 0, no other mp4fragment call was made,
\* and the input list of mp4dash is the list of the '-fragmented.mp4'
\* siblings of the paths handed over, one per path, in that order.
C12_ManifestOnce ==
    /\ Len(dash_calls) <= 1
    /\ dash_calls # <<>> =>
         LET handed == input_paths[1]
         IN  /\ Len(frag_calls) = Len(handed)
             /\ \A i \in DOMAIN handed :
                  /\ frag_calls[i].input = handed[i]
                  /\ frag_calls[i].rc = 0
                  /\ handed[i].dir = "output"
             /\ dash_calls[1].files = [i \in DOMAIN handed |-> SiblingOf(handed[i])]

\* C12 witness: mp4dash was called over three fragments, after one of four
\* jobs failed, the paths having been handed over in an order other than the
\* submission order.
C12_Witness ==
    /\ Len(dash_calls) = 1
    /\ Len(dash_calls[1].files) = 3
    /\ dash_calls[1].files[1] = Path("output", "clip_480p_SDR-fragmented", ".mp4")
    /\ dash_calls[1].files[3] = Path("output", "clip_360p_SDR-fragmented", ".mp4")

\* Every job of the run has been submitted and has failed.
AllJobsFailed == AllJobsSubmitted /\ Jobs # {} /\ Failed = Jobs

AfterPackage == pc \in {"packaged", "elapsed", "exited"}

\* C13: when every transcode job has failed the run is not cut short: the
\* packager is called, once, with an empty list, it makes no mp4fragment
\* call and calls mp4dash once with no input file, and the run then ends as
\* every validated run does, with the elapsed-time line and status 0.
C13_EmptyBatch ==
    AllJobsFailed =>
        /\ PackagerCalled => input_paths = << <<>> >> /\ frag_calls = <<>>
        /\ AfterPackage =>
             /\ PackagerCalled
             /\ Len(dash_calls) = 1
             /\ dash_calls[1].files = <<>>
        /\ pc = "exited" => exit_status = Some(0) /\ "duration:" \in log

\* C13 witness: the run of an HDR source has ended after all eight jobs
\* failed; mp4dash was called with no input file.
C13_Witness ==
    /\ AllJobsFailed
    /\ Cardinality(Jobs) = 8
    /\ pc = "exited"
    /\ dash_calls # <<>> /\ dash_calls[1].files = <<>>

HdrProbeFailed == "Error checking HDR with ffprobe:" \in log
DurationProbeFailed == "Error getting duration:" \in log
FrameRateProbeFailed == "Error getting frame rate:" \in log

\* The three probes have been made.
Probed == probe_calls = 3

\* C14: a failed probe never stops the run.  After a failed duration or
\* frame-rate probe the attribute is None, after a failed HDR probe the
\* source counts as SDR; the submit loop still submits the full job set
\* (exactly the 4 SDR jobs after a failed HDR probe), every job that is
\* taken up calls ffmpeg, with the text None as its -t or -r argument where
\* the probe failed, every job that has finished has the outcome of its
\* ffmpeg call, and the run does not end before all jobs are done and the
\* packager has been called.
C14_ProbeFailures ==
    /\ DurationProbeFailed => duration = None
    /\ FrameRateProbeFailed => frame_rate = None
    /\ HdrProbeFailed => ~is_hdr
    /\ (DurationProbeFailed \/ FrameRateProbeFailed \/ HdrProbeFailed) =>
         /\ AllJobsSubmitted => {JobOf(j) : j \in Jobs} = ExpectedJobs(is_hdr)
         /\ (AllJobsSubmitted /\ HdrProbeFailed) =>
              /\ Len(transcoding_futures) = 4
              /\ \A j \in Jobs : ~transcoding_futures[j].hdr
         /\ \A j \in Jobs :
              /\ transcoding_futures[j].st # "pending" => Started(j)
              /\ Started(j) =>
                   /\ transcoding_futures[j].cmd[1].tool = "ffmpeg"
                   /\ DurationProbeFailed => transcoding_futures[j].cmd[1].t = <<"None">>
                   /\ FrameRateProbeFailed => transcoding_futures[j].cmd[1].r = <<"None">>
              /\ transcoding_futures[j].st = "done" =>
                   transcoding_futures[j].outcome \in {"exit0", "exit1", "raised"}
         /\ (Probed /\ pc = "exited") =>
              /\ AllJobsSubmitted /\ AllJobsDone
              /\ PackagerCalled
              /\ exit_status = Some(0)

\* C14 witness: the frame-rate probe failed; the run has ended after all
\* four jobs called ffmpeg with -r None and mp4dash was called.
C14_Witness ==
    /\ pc = "exited"
    /\ FrameRateProbeFailed /\ ~DurationProbeFailed
    /\ Len(transcoding_futures) = 4
    /\ \A j \in Jobs :
         /\ transcoding_futures[j].outcome = "exit0"
         /\ transcoding_futures[j].cmd[1].r = <<"None">>
         /\ transcoding_futures[j].cmd[1].t # <<"None">>
    /\ dash_calls # <<>>

\* C15: a validated run in which every external call returns ends, under
\* fair scheduling and with a pool of any size from 1 up: a job once
\* submitted stays a job of the run and once done stays done, at the end of
\* the run every job of the table has been submitted and is done, the
\* packager has been called exactly once, the elapsed-time line has been
\* printed and the status is 0.
C15_Termination ==
    /\ <>(pc = "exited")
    /\ [][\A j \in Jobs :
            /\ j \in DOMAIN transcoding_futures'
            /\ transcoding_futures[j].st = "done" => transcoding_futures'[j].st = "done"]_vars
    /\ [](Len(input_paths) <= 1)
    /\ [](pc = "exited" =>
            /\ AllJobsSubmitted /\ AllJobsDone
            /\ Len(input_paths) = 1
            /\ "duration:" \in log
            /\ exit_status = Some(0))

\* C15 witness: the run of an HDR source with a pool of one worker has ended
\* after one of its eight jobs failed.
C15_Witness ==
    /\ pc = "exited"
    /\ max_workers = 1
    /\ Cardinality(Jobs) = 8
    /\ Failed # {}
    /\ "duration:" \in log

\* The parts of an ffmpeg command other than the drawtext filter and the
\* output path.
EncodeArgs(cmd) ==
    <<cmd.tool, cmd.input, cmd.scale, cmd.vcodec, cmd.crf, cmd.preset, cmd.r,
      cmd.acodec, cmd.ab, cmd.t>>

\* The output file the claim names for a source, a resolution and a flag.
ClaimOut ==
    [v \in VideoPaths |->
        [r \in TableResolutions |->
            [h \in BOOLEAN |->
                Path("output", v.stem \o "_" \o r \o (IF h THEN "_HDR" ELSE "_SDR"),
                     ".mp4")]]]

\* The forced-SDR jobs that have been started.
StartedForcedSdr == {j \in Jobs : Started(j) /\ is_hdr /\ ~transcoding_futures[j].hdr}

\* C16: for an HDR source, the commands of the job (resolution, true) and of
\* the forced-SDR job (resolution, false) have the same input, scale, codec,
\* quality, preset, frame rate, audio and duration arguments and the same
\* marker text and opacity; they differ in the color, size and position of
\* the marker and in the suffix of the output file name, _HDR against _SDR,
\* and in nothing else.
C16_ForcedSdrCosmetic ==
    /\ \A j \in StartedForcedSdr :
         \A i \in Jobs :
            (/\ Started(i)
             /\ transcoding_futures[i].hdr
             /\ transcoding_futures[i].resolution = transcoding_futures[j].resolution) =>
               LET a == transcoding_futures[i].cmd[1]
                   b == transcoding_futures[j].cmd[1]
                   res == transcoding_futures[i].resolution
               IN  /\ EncodeArgs(a) = EncodeArgs(b)
                   /\ a.drawtext.text = b.drawtext.text
                   /\ a.drawtext.alpha = b.drawtext.alpha
                   /\ a.drawtext.fontcolor # b.drawtext.fontcolor
                   /\ a.drawtext.fontsize # b.drawtext.fontsize
                   /\ <<a.drawtext.x, a.drawtext.y>> # <<b.drawtext.x, b.drawtext.y>>
                   /\ a.out = ClaimOut[video_path][res][TRUE]
                   /\ b.out = ClaimOut[video_path][res][FALSE]
    /\ \A j \in Jobs : transcoding_futures[j].hdr => is_hdr

\* C16 witness: both jobs of 1080p of an HDR source have been started, the
\* forced-SDR job after the HDR job had finished.
C16_Witness ==
    \E i, j \in Jobs :
        /\ JobOf(i) = <<"1080p", TRUE>> /\ JobOf(j) = <<"1080p", FALSE>>
        /\ transcoding_futures[i].st = "done"
        /\ transcoding_futures[j].st = "running"
        /\ transcoding_futures[j].cmd[1].drawtext.fontcolor = "white"

\* C17: the three probes are made in the order HDR, duration, frame rate,
\* and all before the first job is submitted; is_hdr, duration and
\* frame_rate are set by their own probe only and never change afterwards,
\* whatever step is taken (submission, transcoding, collection, packaging);
\* the command of every job carries the probed frame rate and duration and
\* the source path, and an HDR job exists only for a source probed as HDR.
C17_ProbeThenFreeze ==
    /\ [](transcoding_futures # <<>> => Probed)
    /\ [][probe_calls' # probe_calls =>
            /\ probe_calls' = probe_calls + 1
            /\ transcoding_futures = <<>> /\ transcoding_futures' = <<>>]_vars
    /\ [][is_hdr' # is_hdr => probe_calls = 0 /\ probe_calls' = 1]_vars
    /\ [][duration' # duration => probe_calls = 1 /\ probe_calls' = 2]_vars
    /\ [][frame_rate' # frame_rate => probe_calls = 2 /\ probe_calls' = 3]_vars
    /\ [](\A j \in Jobs :
            /\ transcoding_futures[j].hdr => is_hdr
            /\ Started(j) =>
                 /\ transcoding_futures[j].cmd[1].input = video_path
                 /\ transcoding_futures[j].cmd[1].r = PyStr(frame_rate)
                 /\ transcoding_futures[j].cmd[1].t = PyStr(duration))

\* C17 witness: the run of an HDR source with a known frame rate and
\* duration has ended; all eight jobs were started and mp4dash was called.
C17_Witness ==
    /\ pc = "exited"
    /\ is_hdr /\ frame_rate # None /\ duration # None
    /\ Cardinality(Jobs) = 8
    /\ \A j \in Jobs : Started(j)
    /\ dash_calls # <<>>

====
